---- MODULE Spec2Model ----
(***************************************************************************)
(* A model of eva_data_analysis.py: the spacewalk (EVA) data pipeline.     *)
(*                                                                         *)
(* A dataframe is a record [cols, rows]: cols is the set of column names,  *)
(* rows the sequence of rows in table order.  A row is a function from     *)
(* the column names (and "idx", the pandas index label) to cells.  A cell  *)
(* is a record [k, s, n, d]: k is the kind of value ("null" for            *)
(* None/NaN/NaT/pd.NA, "str", "int", "float", "datetime"), s the text of   *)
(* a "str" cell as a sequence of one-character strings, and n/d the        *)
(* number of a numeric cell as the fraction n/d.                           *)
(*                                                                         *)
(* df is the dataframe object the caller holds and passes to a stage, old  *)
(* its value when the last call was made, out what the call returned or    *)
(* raised, op the function called, arg its second (non-table) argument.    *)
(*                                                                         *)
(* pc is the statement of the main script that runs next ("import" when    *)
(* the module is imported and its functions are called directly, "exit"    *)
(* after the last statement, "traceback" after an uncaught exception),     *)
(* log the calls the script has made, the verdict assigned to              *)
(* data_is_valid, the files written and the status message printed, in     *)
(* order.                                                                  *)
(***************************************************************************)
EXTENDS Integers, Sequences, FiniteSets, TLC

VARIABLES df, old, out, op, arg, pc, log

vars == <<df, old, out, op, arg, pc, log>>

\* The variables of the main script alone.
main == <<pc, log>>

\* Bounds of the model.
MaxRows == 2
MaxSummaryRows == 8
MaxLen == 4
MaxDurationLen == 5

-----------------------------------------------------------------------------
(* Cells *)

Null == [k |-> "null", s |-> <<>>, n |-> 0, d |-> 1]
Str(t) == [k |-> "str", s |-> t, n |-> 0, d |-> 1]
Int64(i) == [k |-> "int", s |-> <<>>, n |-> i, d |-> 1]
Float(i, j) == [k |-> "float", s |-> <<>>, n |-> i, d |-> j]
Datetime(i) == [k |-> "datetime", s |-> <<>>, n |-> i, d |-> 1]

IsNull(c) == c.k = "null"

\* The characters the texts of the model are written in, in code point order.
Chars == <<"\n", " ", "0", "1", "2", "3", "4", "5", "6", "7", "8", "9", ":", ";", "A", "R", "S", "U", "a", "n", "x">>

Digits == {"0", "1", "2", "3", "4", "5", "6", "7", "8", "9"}

Whitespace == {" ", "\n"}

DigitValue(c) == CHOOSE v \in 0..9 : <<"0", "1", "2", "3", "4", "5", "6", "7", "8", "9">>[v + 1] = c

AllDigits(t) == Len(t) > 0 /\ \A i \in 1..Len(t) : t[i] \in Digits

RECURSIVE DecimalValue(_)
DecimalValue(t) ==
    IF Len(t) = 0 THEN 0
    ELSE 10 * DecimalValue(SubSeq(t, 1, Len(t) - 1)) + DigitValue(t[Len(t)])

\* str.split(sep) / re.split(sep, text): the pieces between the separators.
RECURSIVE SplitOn(_, _)
SplitOn(t, sep) ==
    IF \A i \in 1..Len(t) : t[i] # sep THEN <<t>>
    ELSE LET p == CHOOSE i \in 1..Len(t) : t[i] = sep /\ \A j \in 1..(i - 1) : t[j] # sep
         IN <<SubSeq(t, 1, p - 1)>> \o SplitOn(SubSeq(t, p + 1, Len(t)), sep)

\* str.split() without a separator: the words between runs of whitespace.
RECURSIVE SplitWhitespace(_)
SplitWhitespace(t) ==
    IF Len(t) = 0 THEN <<>>
    ELSE IF t[1] \in Whitespace THEN SplitWhitespace(Tail(t))
    ELSE LET stops == {i \in 1..Len(t) : t[i] \in Whitespace}
             e == IF stops = {} THEN Len(t) + 1
                  ELSE CHOOSE i \in stops : \A j \in stops : i <= j
         IN <<SubSeq(t, 1, e - 1)>> \o SplitWhitespace(SubSeq(t, e, Len(t)))

-----------------------------------------------------------------------------
(* Results of a call *)

NoResult == [kind |-> "none", same |-> FALSE, exc |-> "", trace |-> <<>>]

Returned(kind, v, same, trace) ==
    [kind |-> kind, v |-> v, same |-> same, exc |-> "", trace |-> trace]

Raised(exc, trace) == [kind |-> "raise", same |-> FALSE, exc |-> exc, trace |-> trace]

-----------------------------------------------------------------------------
(* Column operations of pandas *)

RowsOf(t) == 1..Len(t.rows)

Column(t, c) == [i \in RowsOf(t) |-> t.rows[i][c]]

\* df[c] = values: the column is set in every row (added when new).
SetColumn(t, c, values) ==
    [cols |-> t.cols \cup {c},
     rows |-> [i \in RowsOf(t) |->
                 [f \in DOMAIN t.rows[i] \cup {c} |->
                    IF f = c THEN values[i] ELSE t.rows[i][f]]]]

RECURSIVE SelectSeq2(_, _)
SelectSeq2(s, keep) ==
    IF Len(s) = 0 THEN <<>>
    ELSE (IF keep[1] THEN <<s[1]>> ELSE <<>>)
         \o SelectSeq2(Tail(s), Tail(keep))

\* pd.to_numeric(errors='coerce') in place of astype(float): a text that is
\* no number becomes NaN.
ParseFloatCoerce(c) ==
    IF c.k \in {"int", "float"} THEN [ok |-> TRUE, cell |-> Float(c.n, c.d)]
    ELSE IF c.k = "str" /\ AllDigits(c.s)
        THEN [ok |-> TRUE, cell |-> Float(DecimalValue(c.s), 1)]
    ELSE [ok |-> TRUE, cell |-> Null]

\* float(x) for one cell of Series.astype(float).
ParseFloat(c) ==
    IF c.k = "null" THEN [ok |-> TRUE, cell |-> Null]
    ELSE IF c.k \in {"int", "float"} THEN [ok |-> TRUE, cell |-> Float(c.n, c.d)]
    ELSE IF c.k = "str" /\ AllDigits(c.s)
        THEN [ok |-> TRUE, cell |-> Float(DecimalValue(c.s), 1)]
    ELSE IF c.k = "str" /\ c.s = <<"n", "a", "n">> THEN [ok |-> TRUE, cell |-> Null]
    ELSE [ok |-> FALSE, cell |-> Null]

\* pd.to_datetime for one cell (errors='raise' is the default).  A date text
\* of the model is a run of digits, standing for an ISO date.
ParseDate(c) ==
    IF c.k = "null" THEN [ok |-> TRUE, cell |-> Null]
    ELSE IF c.k \in {"int", "datetime"} THEN [ok |-> TRUE, cell |-> Datetime(c.n)]
    ELSE IF c.k = "str" /\ AllDigits(c.s)
        THEN [ok |-> TRUE, cell |-> Datetime(DecimalValue(c.s))]
    ELSE [ok |-> FALSE, cell |-> Null]

\* dropna(subset=['date']) in place of dropna(): only a missing date drops
\* the row.
DropNaDateOnly(t) ==
    [cols |-> t.cols,
     rows |-> SelectSeq2(t.rows, [i \in RowsOf(t) |-> ~IsNull(t.rows[i]["date"])])]

\* DataFrame.dropna(axis=0): the rows without a null in any column.
DropNa(t) ==
    [cols |-> t.cols,
     rows |-> SelectSeq2(t.rows,
                [i \in RowsOf(t) |-> \A c \in t.cols : ~IsNull(t.rows[i][c])])]

IsSortedBy(rows, c) ==
    \A i, j \in 1..Len(rows) : i < j => rows[i][c].n <= rows[j][c].n

Orderings(rows) ==
    {[i \in 1..Len(rows) |-> rows[p[i]]] :
        p \in {q \in [1..Len(rows) -> 1..Len(rows)] :
                 \A i, j \in 1..Len(rows) : i # j => q[i] # q[j]}}

\* DataFrame.sort_values(c): the default kind is quicksort, which is not
\* stable, so every ascending ordering of the rows is a possible outcome.
SortValues(t, c) == {s \in Orderings(t.rows) : IsSortedBy(s, c)}

-----------------------------------------------------------------------------
(* clean_data *)

\* The state of df_ and the outcome after lines 55-56 (the coercions).
CleanCoerce(t) ==
    IF "eva" \notin t.cols THEN [df |-> t, exc |-> "KeyError"]
    ELSE IF \E i \in RowsOf(t) : ~ParseFloat(t.rows[i]["eva"]).ok
        THEN [df |-> t, exc |-> "ValueError"]
    ELSE LET t1 == SetColumn(t, "eva",
                     [i \in RowsOf(t) |-> ParseFloat(t.rows[i]["eva"]).cell])
         IN IF "date" \notin t.cols THEN [df |-> t1, exc |-> "KeyError"]
            ELSE IF \E i \in RowsOf(t) : ~ParseDate(t.rows[i]["date"]).ok
                THEN [df |-> t1, exc |-> "ValueError"]
            ELSE [df |-> SetColumn(t1, "date",
                           [i \in RowsOf(t) |-> ParseDate(t.rows[i]["date"]).cell]),
                  exc |-> ""]

\* clean_data(df_): works on df_ itself and returns that same object.
clean_data ==
    /\ LET c == CleanCoerce(df)
       IN IF c.exc # ""
          THEN /\ df' = c.df
               /\ out' = Raised(c.exc, <<"print">>)
          ELSE \E s \in SortValues(DropNa(c.df), "date") :
                 /\ df' = [cols |-> c.df.cols, rows |-> s]
                 /\ out' = Returned("table", df', TRUE, <<"print">>)
    /\ old' = df
    /\ op' = "clean_data"
    /\ arg' = <<>>
    /\ UNCHANGED main

-----------------------------------------------------------------------------
(* text_to_duration, add_duration_hours_variable *)

\* str.strip() as int() applies it: leading and trailing whitespace removed.
RECURSIVE Strip(_)
Strip(t) ==
    IF Len(t) = 0 THEN t
    ELSE IF t[1] \in Whitespace THEN Strip(Tail(t))
    ELSE IF t[Len(t)] \in Whitespace THEN Strip(SubSeq(t, 1, Len(t) - 1))
    ELSE t

\* int(text): the value of a run of decimal digits, ValueError otherwise.
ParseInt(t) ==
    IF AllDigits(Strip(t)) THEN [exc |-> "", n |-> DecimalValue(Strip(t))]
    ELSE [exc |-> "ValueError", n |-> 0]

\* text_to_duration with the minutes divided by floor division (//).
text_to_duration_floor(duration) ==
    IF duration.k # "str" THEN [exc |-> "AttributeError", cell |-> Null]
    ELSE LET parts == SplitOn(duration.s, ":")
         IN IF Len(parts) # 2 THEN [exc |-> "ValueError", cell |-> Null]
            ELSE IF ParseInt(parts[1]).exc # "" \/ ParseInt(parts[2]).exc # ""
                THEN [exc |-> "ValueError", cell |-> Null]
            ELSE [exc |-> "",
                  cell |-> Float(60 * ParseInt(parts[1]).n
                                    + 60 * (ParseInt(parts[2]).n \div 60), 60)]

\* text_to_duration(duration): hours + minutes / 60, as the fraction
\* (60 * hours + minutes) / 60.
text_to_duration(duration) ==
    IF duration.k # "str" THEN [exc |-> "AttributeError", cell |-> Null]
    ELSE LET parts == SplitOn(duration.s, ":")
         IN IF Len(parts) # 2 THEN [exc |-> "ValueError", cell |-> Null]
            ELSE IF ParseInt(parts[1]).exc # "" \/ ParseInt(parts[2]).exc # ""
                THEN [exc |-> "ValueError", cell |-> Null]
            ELSE [exc |-> "",
                  cell |-> Float(60 * ParseInt(parts[1]).n + ParseInt(parts[2]).n, 60)]

\* A direct call text_to_duration(arg) on a text.
text_to_duration_call ==
    /\ op = "duration"
    /\ out' = IF text_to_duration(Str(arg)).exc # ""
              THEN Raised(text_to_duration(Str(arg)).exc, <<>>)
              ELSE Returned("cell", text_to_duration(Str(arg)).cell, FALSE, <<>>)
    /\ op' = "text_to_duration"
    /\ UNCHANGED <<df, old, arg>>
    /\ UNCHANGED main

\* Series.apply: the exception of the first row, in table order, on which
\* the applied function raises ("" when it raises on none).
FirstError(results) ==
    LET bad == {i \in DOMAIN results : results[i].exc # ""}
    IN IF bad = {} THEN ""
       ELSE results[CHOOSE i \in bad : \A j \in bad : i <= j].exc

add_duration_hours_result(t) ==
    IF "duration" \notin t.cols THEN Raised("KeyError", <<"copy">>)
    ELSE LET results == [i \in RowsOf(t) |-> text_to_duration(t.rows[i]["duration"])]
         IN IF FirstError(results) # ""
            THEN Raised(FirstError(results), <<"copy", "apply">>)
            ELSE Returned("table",
                          SetColumn(t, "duration_hours",
                                    [i \in RowsOf(t) |-> results[i].cell]),
                          FALSE, <<"copy", "apply">>)

\* add_duration_hours_variable(df_): works on df_.copy().
add_duration_hours_variable ==
    /\ out' = add_duration_hours_result(df)
    /\ old' = df
    /\ op' = "add_duration_hours_variable"
    /\ UNCHANGED <<df, arg>>
    /\ UNCHANGED main

-----------------------------------------------------------------------------
(* calculate_crew_size, add_crew_size_variable *)

\* The pieces of the split counted, without the "- 1".
calculate_crew_size_pieces(crew) ==
    IF crew.k # "str" THEN [exc |-> "AttributeError", cell |-> Null]
    ELSE IF SplitWhitespace(crew.s) = <<>> THEN [exc |-> "", cell |-> Null]
    ELSE [exc |-> "", cell |-> Int64(Len(SplitOn(crew.s, ";")))]

\* calculate_crew_size(crew): None when crew.split() is empty, else the
\* number of pieces of re.split(';', crew) less one.
calculate_crew_size(crew) ==
    IF crew.k # "str" THEN [exc |-> "AttributeError", cell |-> Null]
    ELSE IF SplitWhitespace(crew.s) = <<>> THEN [exc |-> "", cell |-> Null]
    ELSE [exc |-> "", cell |-> Int64(Len(SplitOn(crew.s, ";")) - 1)]

\* Series.apply gives a float64 column (None as NaN) when some result is
\* None, an int64 column otherwise.
InferNumeric(values) ==
    IF \E i \in DOMAIN values : IsNull(values[i])
    THEN [i \in DOMAIN values |->
            IF IsNull(values[i]) THEN Null ELSE Float(values[i].n, 1)]
    ELSE values

add_crew_size_result(t) ==
    IF "crew" \notin t.cols THEN Raised("KeyError", <<"print", "copy">>)
    ELSE LET results == [i \in RowsOf(t) |-> calculate_crew_size(t.rows[i]["crew"])]
         IN IF FirstError(results) # ""
            THEN Raised(FirstError(results), <<"print", "copy", "apply">>)
            ELSE Returned("table",
                          SetColumn(t, "crew_size",
                                    InferNumeric([i \in RowsOf(t) |-> results[i].cell])),
                          FALSE, <<"print", "copy", "apply">>)

\* add_crew_size_variable(df_): works on df_.copy().
add_crew_size_variable ==
    /\ out' = add_crew_size_result(df)
    /\ old' = df
    /\ op' = "add_crew_size_variable"
    /\ UNCHANGED <<df, arg>>
    /\ UNCHANGED main

\* A direct call calculate_crew_size(arg) on a text.
calculate_crew_size_call ==
    /\ op = "text"
    /\ out' = IF calculate_crew_size(Str(arg)).exc # ""
              THEN Raised(calculate_crew_size(Str(arg)).exc, <<>>)
              ELSE Returned("cell", calculate_crew_size(Str(arg)).cell, FALSE, <<>>)
    /\ op' = "calculate_crew_size"
    /\ UNCHANGED <<df, old, arg>>
    /\ UNCHANGED main

-----------------------------------------------------------------------------
(* summarise_categorical *)

CharOrd(c) == CHOOSE i \in 1..Len(Chars) : Chars[i] = c

RECURSIVE TextLess(_, _)
TextLess(a, b) ==
    IF Len(b) = 0 THEN FALSE
    ELSE IF Len(a) = 0 THEN TRUE
    ELSE IF a[1] # b[1] THEN CharOrd(a[1]) < CharOrd(b[1])
    ELSE TextLess(Tail(a), Tail(b))

\* The order of the values of one column (texts, or numbers).
CellLess(a, b) ==
    IF a.k = "str" /\ b.k = "str" THEN TextLess(a.s, b.s)
    ELSE a.n * b.d < b.n * a.d

RECURSIVE Ascending(_)
Ascending(S) ==
    IF S = {} THEN <<>>
    ELSE LET m == CHOOSE x \in S : \A y \in S \ {x} : CellLess(x, y)
         IN <<m>> \o Ascending(S \ {m})

\* DataFrame.value_counts(): dropna=True is the default, so the rows with a
\* missing value are left out; one count per remaining distinct value.
value_counts(column) ==
    LET values == {column[i] : i \in DOMAIN column} \ {Null}
    IN [v \in values |-> Cardinality({i \in DOMAIN column : column[i] = v})]

\* round(x, 2) of x = c / n, in hundredths: numpy rounds half to even.
Round2(c, n) ==
    LET q == (100 * c) \div n
        r == (100 * c) % n
    IN IF 2 * r < n THEN q
       ELSE IF 2 * r > n THEN q + 1
       ELSE IF q % 2 = 0 THEN q ELSE q + 1

\* The percentage truncated instead of rounded.
percentage_truncated(count, size) == Float(((100 * count) \div size) * 100, 100)

\* round(count_summary / count_variable.size, 2) * 100
percentage_summary(count, size) == Float(Round2(count, size) * 100, 100)

\* df_.reindex(columns=[varname_]) in place of df_[[varname_]]: a column
\* the table lacks comes back all missing.
SelectColumnsReindex(t, varname_) ==
    IF varname_ \notin t.cols THEN [exc |-> "", column |-> [i \in RowsOf(t) |-> Null]]
    ELSE [exc |-> "", column |-> Column(t, varname_)]

\* df_[[varname_]]: the column, or KeyError when the table has none of
\* that name.
SelectColumns(t, varname_) ==
    IF varname_ \notin t.cols THEN [exc |-> "KeyError", column |-> <<>>]
    ELSE [exc |-> "", column |-> Column(t, varname_)]

summarise_result(t, varname_) ==
    IF SelectColumns(t, varname_).exc # ""
    THEN Raised(SelectColumns(t, varname_).exc, <<"print", "select">>)
    ELSE LET count_variable == SelectColumns(t, varname_).column
             count_summary == value_counts(count_variable)
             size == Len(count_variable)
             index == Ascending(DOMAIN count_summary)
         IN Returned("summary",
                     [i \in 1..Len(index) |->
                        [value |-> index[i],
                         count |-> count_summary[index[i]],
                         percentage |-> percentage_summary(count_summary[index[i]], size)]],
                     FALSE,
                     <<"print", "select", "value_counts", "round", "concat",
                       "sort_index", "reset_index">>)

\* summarise_categorical(df_, varname_): works on df_[[varname_]].copy().
summarise_categorical(varname_) ==
    /\ out' = summarise_result(df, varname_)
    /\ old' = df
    /\ op' = "summarise_categorical"
    /\ arg' = varname_
    /\ UNCHANGED df
    /\ UNCHANGED main

-----------------------------------------------------------------------------
(* validate_input_data *)

Required == {"eva", "country", "crew", "vehicle", "date", "duration", "purpose"}

\* The pandas dtype of a column.
Dtype(t, c) ==
    LET kinds == {t.rows[i][c].k : i \in RowsOf(t)}
    IN IF kinds = {"int"} THEN "int64"
       ELSE IF kinds # {} /\ kinds # {"null"} /\ kinds \subseteq {"int", "float", "null"}
           THEN "float64"
       ELSE IF "datetime" \in kinds /\ kinds \subseteq {"datetime", "null"}
           THEN "datetime64"
       ELSE "object"

\* re.match(r'^\d{1,2}:\d{2}$', text); $ also matches before a final newline.
DurationPattern(t) ==
    LET exact(u) == \E h \in {1, 2} :
                       /\ Len(u) = h + 3
                       /\ \A i \in 1..h : u[i] \in Digits
                       /\ u[h + 1] = ":"
                       /\ u[h + 2] \in Digits
                       /\ u[h + 3] \in Digits
    IN \/ exact(t)
       \/ Len(t) > 0 /\ t[Len(t)] = "\n" /\ exact(SubSeq(t, 1, Len(t) - 1))

\* The check of the crew column: s.apply(lambda x: x == "" or ";" in x).
\* The lambda is applied to every value of the column; ";" in x raises
\* TypeError on a value that is not text (None, NaN, a number), and a check
\* that raises is a failed check.
CrewCheck(t) ==
    \A i \in RowsOf(t) :
        /\ t.rows[i]["crew"].k = "str"
        /\ \/ t.rows[i]["crew"].s = <<>>
           \/ \E j \in 1..Len(t.rows[i]["crew"].s) : t.rows[i]["crew"].s[j] = ";"

\* The check of the duration column: (x == "") | x.str.match(...).  The
\* .str accessor needs an object column; a null value gives a null result,
\* which the check ignores (ignore_na).
DurationCheck(t) ==
    /\ Dtype(t, "duration") = "object"
    /\ \A i \in RowsOf(t) :
          \/ IsNull(t.rows[i]["duration"])
          \/ /\ t.rows[i]["duration"].k = "str"
             /\ \/ t.rows[i]["duration"].s = <<>>
                \/ DurationPattern(t.rows[i]["duration"].s)

\* schema.validate(df_, lazy=True): every failure of the schema.
SchemaFailures(t) ==
    {<<"column_in_dataframe", c>> : c \in Required \ t.cols}
    \cup {<<"dtype", c>> : c \in {x \in Required \cap t.cols : Dtype(t, x) # "object"}}
    \cup (IF "crew" \in t.cols /\ ~CrewCheck(t) THEN {<<"check", "crew">>} ELSE {})
    \cup (IF "duration" \in t.cols /\ ~DurationCheck(t) THEN {<<"check", "duration">>} ELSE {})

\* lazy=True at line 226.
Lazy == TRUE

\* pandera raises SchemaError at the first failure, or with lazy=True
\* SchemaErrors once all failures are collected.
SchemaException(lazy) == IF lazy THEN "SchemaErrors" ELSE "SchemaError"

\* pandera.errors: SchemaError and SchemaErrors both derive from
\* ReducedPickleExceptionBase, neither from the other.
Bases(exc) ==
    IF exc \in {"SchemaError", "SchemaErrors"}
    THEN {exc, "ReducedPickleExceptionBase", "Exception"}
    ELSE {exc, "Exception"}

\* The except clause at line 229.
ExceptClause == "SchemaError"

validate_result(t) ==
    IF SchemaFailures(t) = {}
    THEN Returned("bool", TRUE, FALSE, <<"print", "validate", "print_success">>)
    ELSE IF ExceptClause \in Bases(SchemaException(Lazy))
        THEN Returned("bool", FALSE, FALSE,
                      <<"print", "validate", "print_failed", "print_skipping">>)
    ELSE Raised(SchemaException(Lazy), <<"print", "validate">>)

validate_input_data ==
    /\ out' = validate_result(df)
    /\ old' = df
    /\ op' = "validate_input_data"
    /\ UNCHANGED <<df, arg>>
    /\ UNCHANGED main

-----------------------------------------------------------------------------
(* The caller *)

\* The caller passes the table a stage returned on to the next stage, as
\* the main script does (lines 254-264).
UseResult ==
    /\ out.kind = "table"
    /\ ~out.same
    /\ df' = out.v
    /\ old' = out.v
    /\ out' = NoResult
    /\ op' = "pass"
    /\ arg' = <<>>
    /\ UNCHANGED main

-----------------------------------------------------------------------------
(* The main script *)

\* Series.cumsum() of the duration_hours column (sixtieths of an hour).
RECURSIVE CumSum(_, _)
CumSum(column, i) ==
    IF i = 0 THEN 0 ELSE CumSum(column, i - 1) + column[i].n

\* plot_cumulative_time_in_space(df_, graph_file_): the table that is
\* plotted, or the exception of add_duration_hours_variable.
plot_result(t) ==
    LET added == add_duration_hours_result(t)
    IN IF added.kind = "raise"
       THEN Raised(added.exc, <<"print">> \o added.trace)
       ELSE Returned("figure",
                     SetColumn(added.v, "cumulative_time",
                               [i \in RowsOf(added.v) |->
                                  Float(CumSum(Column(added.v, "duration_hours"), i), 60)]),
                     FALSE,
                     <<"print">> \o added.trace \o <<"cumsum", "plot", "savefig", "show">>)

\* write_dataframe_to_csv(df_, output_file_): prints, writes the file and
\* returns None.
write_result == [kind |-> "none", same |-> FALSE, exc |-> "", trace |-> <<"print", "to_csv">>]

\* Where the script goes after a call: on to the next statement, or out
\* with a traceback when the call raised (no statement of the script
\* catches anything).
After(result, next) == IF result.kind = "raise" THEN "traceback" ELSE next

\* Line 250: data_is_valid = validate_input_data(eva_data).
main_validate ==
    /\ pc = "validate"
    /\ out' = validate_result(df)
    /\ old' = df
    /\ op' = "validate_input_data"
    /\ log' = log \o <<"validate_input_data">>
                   \o (IF out'.kind = "raise" THEN <<>>
                       ELSE IF out'.v THEN <<"data_is_valid=True">>
                       ELSE <<"data_is_valid=False">>)
    /\ pc' = After(out', "if")
    /\ UNCHANGED <<df, arg>>

\* Line 252: if data_is_valid.
main_if ==
    /\ pc = "if"
    /\ pc' = IF out.v THEN "clean" ELSE "end"
    /\ UNCHANGED <<df, old, out, op, arg, log>>

\* Line 254: eva_data_cleaned = clean_data(eva_data).
main_clean ==
    /\ pc = "clean"
    /\ LET c == CleanCoerce(df)
       IN IF c.exc # ""
          THEN /\ df' = c.df
               /\ out' = Raised(c.exc, <<"print">>)
          ELSE \E s \in SortValues(DropNa(c.df), "date") :
                 /\ df' = [cols |-> c.df.cols, rows |-> s]
                 /\ out' = Returned("table", df', TRUE, <<"print">>)
    /\ old' = df
    /\ op' = "clean_data"
    /\ arg' = <<>>
    /\ log' = Append(log, "clean_data")
    /\ pc' = After(out', "add_crew_size")

\* Line 256: eva_data_prepared = add_crew_size_variable(eva_data_cleaned);
\* eva_data_prepared is the table the statements after it work on.
main_add_crew_size ==
    /\ pc = "add_crew_size"
    /\ out' = add_crew_size_result(df)
    /\ df' = IF out'.kind = "raise" THEN df ELSE out'.v
    /\ old' = df
    /\ op' = "add_crew_size_variable"
    /\ arg' = <<>>
    /\ log' = Append(log, "add_crew_size_variable")
    /\ pc' = After(out', "write_csv")

\* Line 258: write_dataframe_to_csv(eva_data_prepared, output_file).
main_write_csv ==
    /\ pc = "write_csv"
    /\ out' = write_result
    /\ old' = df
    /\ op' = "write_dataframe_to_csv"
    /\ arg' = "output_file"
    /\ log' = log \o <<"write_dataframe_to_csv", "output_file">>
    /\ pc' = "summarise"
    /\ UNCHANGED df

\* Line 260: table_crew_size = summarise_categorical(eva_data_prepared,
\* "crew_size").
main_summarise ==
    /\ pc = "summarise"
    /\ out' = summarise_result(df, "crew_size")
    /\ old' = df
    /\ op' = "summarise_categorical"
    /\ arg' = "crew_size"
    /\ log' = Append(log, "summarise_categorical")
    /\ pc' = After(out', "write_table")
    /\ UNCHANGED df

\* Line 262: write_dataframe_to_csv(table_crew_size, "./table_crew_size.csv").
main_write_table ==
    /\ pc = "write_table"
    /\ out' = write_result
    /\ old' = df
    /\ op' = "write_dataframe_to_csv"
    /\ arg' = "table_crew_size.csv"
    /\ log' = log \o <<"write_dataframe_to_csv", "table_crew_size.csv">>
    /\ pc' = "plot"
    /\ UNCHANGED df

\* Line 264: plot_cumulative_time_in_space(eva_data_prepared, graph_file).
main_plot ==
    /\ pc = "plot"
    /\ out' = plot_result(df)
    /\ old' = df
    /\ op' = "plot_cumulative_time_in_space"
    /\ arg' = "graph_file"
    /\ log' = log \o <<"plot_cumulative_time_in_space">>
                   \o (IF out'.kind = "raise" THEN <<>> ELSE <<"graph_file">>)
    /\ pc' = After(out', "end")
    /\ UNCHANGED df

\* Line 266: print("--END--"), the last statement.
main_end ==
    /\ pc = "end"
    /\ log' = Append(log, "--END--")
    /\ pc' = "exit"
    /\ UNCHANGED <<df, old, out, op, arg>>

-----------------------------------------------------------------------------
(* Inputs *)

Row(eva, country, crew, date, duration) ==
    [idx |-> Int64(0), eva |-> eva, country |-> country, crew |-> crew,
     vehicle |-> Str(<<"x">>), date |-> date, duration |-> duration,
     purpose |-> Str(<<"x">>)]

\* pd.json_normalize: one row per record with the index labels 0, 1, 2, ...,
\* one column per key of the records (none when there is no record).
Loaded(cols, rows) ==
    [cols |-> IF Len(rows) = 0 THEN {} ELSE cols,
     rows |-> [i \in 1..Len(rows) |->
                 [f \in cols \cup {"idx"} |->
                    IF f = "idx" THEN Int64(i - 1) ELSE rows[i][f]]]]

SeqsUpTo(S, n) == UNION {[1..m -> S] : m \in 0..n}

USA == Str(<<"U", "S", "A">>)
Russia == Str(<<"R", "U", "S">>)
EdWhite == Str(<<"A", ";">>)

GoodDuration == Str(<<"0", ":", "3", "6">>)

\* Rows for the cleaner: complete rows of two dates, and rows with one value
\* missing, unparseable, or parsed to NaN.
CleanRows ==
    {Row(Str(<<"1">>), USA, EdWhite, t, GoodDuration) :
        t \in {Str(<<"6", "5">>), Str(<<"6", "6">>), Null, Str(<<"x">>)}}
    \cup {Row(e, USA, EdWhite, Str(<<"6", "5">>), GoodDuration) :
            e \in {Null, Str(<<"n", "a", "n">>), Str(<<"x">>)}}
    \cup {Row(Str(<<"x">>), USA, EdWhite, Str(<<"x">>), GoodDuration),
          Row(Str(<<"1">>), USA, Null, Str(<<"6", "6">>), GoodDuration)}

CleanTables(n) == {Loaded(Required, r) : r \in SeqsUpTo(CleanRows, n)}

\* Rows for the validator: every form of crew text and of duration text.
ValidateRows(eva) ==
    {Row(eva, USA, c, Str(<<"6", "5">>), GoodDuration) :
        c \in {EdWhite, Null, Str(<<>>), Str(<<"A">>)}}
    \cup {Row(eva, USA, EdWhite, Str(<<"6", "5">>), d) :
            d \in {Null, Str(<<>>), Str(<<"1", ":", "2">>),
                   Str(<<"0", ":", "3", "6", "\n">>)}}
    \cup {Row(eva, USA, Str(<<"A">>), Str(<<"6", "5">>), Str(<<"1", ":", "2">>))}

\* Tables for the validator: text columns, a numeric eva column (JSON
\* numbers), a missing column.
ValidateTables(n) ==
    {Loaded(Required, r) : r \in SeqsUpTo(ValidateRows(Str(<<"1">>)), n)}
    \cup {Loaded(Required, r) : r \in SeqsUpTo(ValidateRows(Int64(1)), n)}
    \cup {Loaded(Required \ {"vehicle"}, r) : r \in SeqsUpTo(ValidateRows(Str(<<"1">>)), n)}

\* One-column tables for the summary.
SummaryTables(n) ==
    {Loaded({"country"}, r) :
        r \in SeqsUpTo({[country |-> c] : c \in {USA, Russia, Null}}, n)}

CrewTexts(n) == SeqsUpTo({"A", " ", ";"}, n)

\* Duration texts: hours and minutes digits around ":" and malformed texts.
DurationTexts(n) == SeqsUpTo({"0", "1", "2", "3", "9", ":"}, n)

\* Records for a run of the script: complete records of two dates, and
\* records with a missing date, an eva that is no number, a crew without
\* ";", an empty crew, an empty duration.
MainRows ==
    {Row(Str(<<"1">>), USA, EdWhite, t, GoodDuration) :
        t \in {Str(<<"6", "5">>), Str(<<"6", "6">>), Null}}
    \cup {Row(Str(<<"x">>), USA, EdWhite, Str(<<"6", "5">>), GoodDuration),
          Row(Str(<<"1">>), USA, Str(<<"A">>), Str(<<"6", "5">>), GoodDuration),
          Row(Str(<<"1">>), USA, Str(<<>>), Str(<<"6", "6">>), GoodDuration),
          Row(Str(<<"1">>), USA, EdWhite, Str(<<"6", "6">>), Str(<<>>))}

MainTables(n) == {Loaded(Required, r) : r \in SeqsUpTo(MainRows, n)}

NoTable == [cols |-> {}, rows |-> <<>>]

Start(tables) ==
    /\ df \in tables
    /\ old = df
    /\ out = NoResult
    /\ op = "load"
    /\ arg = <<>>
    /\ pc = "import"
    /\ log = <<>>

Init == Start(CleanTables(MaxRows))

InitValidate == Start(ValidateTables(MaxRows))

InitSummary == Start(SummaryTables(MaxSummaryRows))

InitCrew ==
    /\ df = NoTable
    /\ old = df
    /\ out = NoResult
    /\ op = "text"
    /\ arg \in CrewTexts(MaxLen)
    /\ pc = "import"
    /\ log = <<>>

InitDuration ==
    /\ df = NoTable
    /\ old = df
    /\ out = NoResult
    /\ op = "duration"
    /\ arg \in DurationTexts(MaxDurationLen)
    /\ pc = "import"
    /\ log = <<>>

\* Line 248: eva_data = read_json_to_dataframe(input_file) has run.
InitMain ==
    /\ df \in MainTables(MaxRows)
    /\ old = df
    /\ out = NoResult
    /\ op = "load"
    /\ arg = <<>>
    /\ pc = "validate"
    /\ log = <<>>

Next ==
    \/ validate_input_data
    \/ clean_data
    \/ add_duration_hours_variable
    \/ add_crew_size_variable
    \/ \E v \in {"country", "crew_size", "duration_hours"} : summarise_categorical(v)
    \/ UseResult

NextSummary == \E v \in {"country", "count"} : summarise_categorical(v)

NextCrew == calculate_crew_size_call

NextDuration == text_to_duration_call

NextMain ==
    \/ main_validate
    \/ main_if
    \/ main_clean
    \/ main_add_crew_size
    \/ main_write_csv
    \/ main_summarise
    \/ main_write_table
    \/ main_plot
    \/ main_end

Spec == Init /\ [][Next]_vars

SpecValidate == InitValidate /\ [][Next]_vars

SpecSummary == InitSummary /\ [][NextSummary]_vars

SpecCrew == InitCrew /\ [][NextCrew]_vars

SpecDuration == InitDuration /\ [][NextDuration]_vars

\* The script is one thread that runs each statement to completion and
\* goes on to the next: a statement that can run does run.
SpecMain == InitMain /\ [][NextMain]_vars /\ WF_vars(NextMain)

-----------------------------------------------------------------------------
(* Properties *)

Stages == {"validate_input_data", "clean_data", "add_duration_hours_variable",
           "add_crew_size_variable", "summarise_categorical"}

ReturnedNormally == out.kind \notin {"none", "raise"}

\* C1: whenever clean_data returns, the returned table has no null value in
\* any column and its rows are in non-decreasing order of date.
C1_CleanedNoNullSorted ==
    (op = "clean_data" /\ out.kind = "table") =>
        /\ \A i \in RowsOf(out.v) : \A c \in out.v.cols : out.v.rows[i][c].k # "null"
        /\ \A i, j \in RowsOf(out.v) :
              i < j => out.v.rows[i]["date"].n <= out.v.rows[j]["date"].n

\* C1 witness: clean_data returned two rows that came in in descending order
\* of date.
C1_Witness ==
    /\ op = "clean_data" /\ out.kind = "table"
    /\ Len(out.v.rows) = 2 /\ Len(old.rows) = 2
    /\ old.rows[1]["date"] = Str(<<"6", "6">>)
    /\ old.rows[2]["date"] = Str(<<"6", "5">>)
    /\ out.v.rows[1]["idx"].n = 1

\* C2: no pipeline stage changes the table it was given, and the table a
\* stage returns is a separate object.
C2_StagesLeaveInputUnchanged ==
    (op \in Stages /\ ReturnedNormally) =>
        /\ df = old
        /\ out.kind = "table" => ~out.same

\* Some row holds a crew or duration text that the schema's check rejects.
C3_FormatViolation(t) ==
    /\ {"crew", "duration"} \subseteq t.cols
    /\ \E i \in RowsOf(t) :
          \/ /\ t.rows[i]["crew"].k = "str"
             /\ t.rows[i]["crew"].s # <<>>
             /\ \A j \in 1..Len(t.rows[i]["crew"].s) : t.rows[i]["crew"].s[j] # ";"
          \/ /\ t.rows[i]["duration"].k = "str"
             /\ t.rows[i]["duration"].s # <<>>
             /\ ~DurationPattern(t.rows[i]["duration"].s)

\* C3: given a table in which some row violates the crew or the duration
\* format constraint of the schema, validate_input_data returns False and
\* does not raise.
C3_ValidationFailureReported ==
    (op = "validate_input_data" /\ C3_FormatViolation(old)) =>
        (out.kind = "bool" /\ out.v = FALSE)

\* The format H:MM or HH:MM, and the condition on a table as the claim words it.
C4_HoursMinutes(u) ==
    \E h \in {1, 2} :
        /\ Len(u) = h + 3
        /\ \A i \in 1..(h + 3) : IF i = h + 1 THEN u[i] = ":" ELSE u[i] \in Digits

C4_Condition(t) ==
    /\ Required \subseteq t.cols
    /\ \A i \in RowsOf(t) :
          /\ \/ t.rows[i]["crew"].k = "null"
             \/ /\ t.rows[i]["crew"].k = "str"
                /\ \/ t.rows[i]["crew"].s = <<>>
                   \/ \E j \in 1..Len(t.rows[i]["crew"].s) : t.rows[i]["crew"].s[j] = ";"
          /\ \/ t.rows[i]["duration"].k = "null"
             \/ /\ t.rows[i]["duration"].k = "str"
                /\ \/ t.rows[i]["duration"].s = <<>>
                   \/ C4_HoursMinutes(t.rows[i]["duration"].s)

\* C4: validate_input_data returns True exactly when the table has the seven
\* required columns, every non-null crew value is empty or contains ';', and
\* every non-null duration value is empty or is one or two digits, a colon
\* and two digits; null values never cause a failure.
C4_TrueExactlyWhenSchemaHolds ==
    op = "validate_input_data" =>
        ((out.kind = "bool" /\ out.v = TRUE) <=> C4_Condition(old))

\* A text that is no number (no date), and the rows that are complete once
\* such texts and NaN count as missing.
C5_Unparseable(c) ==
    /\ c.k = "str"
    /\ ~AllDigits(c.s)
    /\ c.s # <<"n", "a", "n">>

C5_Complete(r, cols) ==
    /\ \A c \in cols : r[c].k # "null"
    /\ ~C5_Unparseable(r["eva"]) /\ r["eva"] # Str(<<"n", "a", "n">>)
    /\ ~C5_Unparseable(r["date"])

C5_Kept(t) == {t.rows[i]["idx"] : i \in {j \in RowsOf(t) : C5_Complete(t.rows[j], t.cols)}}

C6_Semicolons(t) == Cardinality({i \in 1..Len(t) : t[i] = ";"})

\* C6 as stated: calculate_crew_size returns null if and only if the text is
\* the empty string, and otherwise the number of ';' in the text.
C6_NullIffEmpty ==
    op = "calculate_crew_size" =>
        /\ out.kind = "cell"
        /\ (out.v.k = "null") <=> (arg = <<>>)
        /\ arg # <<>> => (out.v.k = "int" /\ out.v.n = C6_Semicolons(arg))

\* A text that is empty or all whitespace.
C6_Blank(t) == \A i \in 1..Len(t) : t[i] \in {" ", "\n"}

\* C6 as amended: calculate_crew_size returns null if and only if the text
\* is empty or all whitespace, and otherwise the number of ';' in the text.
C6_NullIffBlank ==
    op = "calculate_crew_size" =>
        /\ out.kind = "cell"
        /\ (out.v.k = "null") <=> C6_Blank(arg)
        /\ ~C6_Blank(arg) => (out.v.k = "int" /\ out.v.n = C6_Semicolons(arg))

\* C6 witness: a text of two ';'-terminated names with a space gave 2.
C6_Witness ==
    /\ op = "calculate_crew_size"
    /\ arg = <<"A", ";", " ", ";">>
    /\ out.kind = "cell" /\ out.v.k = "int" /\ out.v.n = 2

\* The sum of the counts of a summary.
RECURSIVE SumCounts(_)
SumCounts(buckets) ==
    IF Len(buckets) = 0 THEN 0
    ELSE buckets[1].count + SumCounts(Tail(buckets))

\* C7: the counts of the summary add up to the number of rows of the input
\* table, rows with a missing value included.
C7_CountsSumToRows ==
    (op = "summarise_categorical" /\ arg \in old.cols) =>
        /\ out.kind = "summary"
        /\ SumCounts(out.v) = Len(old.rows)

\* C8: the summary has exactly one bucket per distinct value of the column,
\* one for missing when some row has none, each with the number of rows of
\* that value, in ascending order of value with the missing bucket last.
C8_OneBucketPerValue ==
    (op = "summarise_categorical" /\ arg \in old.cols) =>
        /\ out.kind = "summary"
        /\ LET column == [i \in RowsOf(old) |-> old.rows[i][arg]]
               b == out.v
           IN /\ {b[i].value : i \in 1..Len(b)} = {column[i] : i \in RowsOf(old)}
              /\ \A i, j \in 1..Len(b) : i # j => b[i].value # b[j].value
              /\ \A i \in 1..Len(b) :
                    b[i].count = Cardinality({r \in RowsOf(old) : column[r] = b[i].value})
              /\ \A i, j \in 1..Len(b) :
                    i < j => /\ b[i].value.k # "null"
                             /\ b[j].value.k = "null" \/ CellLess(b[i].value, b[j].value)

C10_UnknownColumnRaises ==
    (op = "summarise_categorical" /\ arg \notin old.cols) =>
        /\ out.kind = "raise"
        /\ out.exc = "KeyError"
        /\ \A i \in 1..Len(out.trace) : out.trace[i] # "value_counts"
        /\ df = old

\* C10 witness: the call on a table with rows, for a column it lacks, raised.
C10_Witness ==
    /\ op = "summarise_categorical"
    /\ arg = "count"
    /\ Len(old.rows) > 0
    /\ out.kind = "raise"

\* The text text_to_duration was called on has the form H:MM or HH:MM.
C11_Form ==
    /\ op = "text_to_duration"
    /\ Len(arg) \in {4, 5}
    /\ arg[Len(arg) - 2] = ":"
    /\ \A i \in (1..Len(arg)) \ {Len(arg) - 2} : arg[i] \in Digits

\* The hours and the minutes its digits write.
C11_Hours ==
    IF Len(arg) = 4 THEN DigitValue(arg[1])
    ELSE 10 * DigitValue(arg[1]) + DigitValue(arg[2])

C11_Minutes == 10 * DigitValue(arg[Len(arg) - 1]) + DigitValue(arg[Len(arg)])

\* C11: for a duration text of the form H:MM or HH:MM with hours h and
\* minutes m, text_to_duration returns a float that is exactly h + m/60:
\* 60 times the result equals 60*h + m.
C11_DurationExact ==
    C11_Form =>
        /\ out.kind = "cell"
        /\ out.v.k = "float"
        /\ 60 * out.v.n = (60 * C11_Hours + C11_Minutes) * out.v.d

\* "10:20" has been converted: 620/60 hours, not a whole number.
C11_Witness ==
    /\ C11_Form
    /\ arg = <<"1", "0", ":", "2", "0">>
    /\ out.kind = "cell"
    /\ out.v = Float(620, 60)

IsPrefix(s, t) == Len(s) <= Len(t) /\ SubSeq(t, 1, Len(s)) = s

\* What a run on valid data does, in order, and what a run does whose
\* validation returned False.
C12_ValidRun ==
    <<"validate_input_data", "data_is_valid=True", "clean_data",
      "add_crew_size_variable", "write_dataframe_to_csv", "output_file",
      "summarise_categorical", "write_dataframe_to_csv", "table_crew_size.csv",
      "plot_cumulative_time_in_space", "graph_file", "--END--">>

C12_SkippedRun == <<"validate_input_data", "data_is_valid=False", "--END--">>

\* The downstream steps run only after validation returned True, in order.
C12_Ordered == IsPrefix(log, C12_ValidRun) \/ IsPrefix(log, C12_SkippedRun)

\* The script is about to validate a table that does not satisfy the schema.
C12_Invalid == pc = "validate" /\ SchemaFailures(df) # {}

\* The run has ended normally having skipped every downstream step.
C12_Skipped == pc = "exit" /\ log = C12_SkippedRun

\* C12: in every run of the main script the downstream steps (clean, add
\* crew size, write primary CSV, summarise, write summary CSV, plot) run
\* only after validation returned True and in that order; when validation
\* fails none of them runs, no file is written and the run still reaches
\* the final "--END--" message.
C12_ValidationGatesRun == [](C12_Ordered) /\ (C12_Invalid ~> C12_Skipped)

====
